---- MODULE Spec2Model ----
(***************************************************************************)
(* The real-time 0-D circulation simulator of src/App.tsx (scheduler,      *)
(* phase detector, parameter synchronizer, ring buffer, instance manager)  *)
(* and src/unnamed/part_000 (activation, chamber pressure, valve flow,     *)
(* RHS, RK4 stepper).                                                      *)
(*                                                                         *)
(* The code computes in IEEE doubles; the model computes in integer fixed  *)
(* point.  Units:                                                          *)
(*   simulation time t, Tmax, tau, AV_delay, PHYSICS_DT   1 ms             *)
(*   wall clock (now, lastFrameTimeRef)                   0.1 ms           *)
(*   timeScale                                            0.1 (10 = 1.0x)  *)
(*   residueTimeRef (wall clock x timeScale)              0.01 ms          *)
(*   volumes (state vector, targetVolume)                 1/VolUnit mL     *)
(*   pressures                                            0.001 mmHg       *)
(*   flows                                                1/VolUnit mL/ms  *)
(*   resistances x10, compliances x100, Ees x100, alpha x1000, beta x100,  *)
(*   V0 in mL, HR in bpm, activation fraction x1000.                       *)
(***************************************************************************)
EXTENDS Integers, Sequences, FiniteSets, TLC

\* fixed-point scale of a volume: VolUnit units are 1 mL
VolUnit == 10000

\* src/constants.ts:19  INITIAL_TIME = 954.9317 ms, on the model's 1 ms grid
INITIAL_TIME == 955

\* src/constants.ts:4-17, in 1/VolUnit mL
INITIAL_STATE_VECTOR ==
  << 7499843, 1493528, 4050806, 1359732, 1443219, 753435,
     1177050, 737640, 684288, 427596, 202864, 100000 >>

\* src/constants.ts:21-40, in the units listed above
DEFAULT_PARAMS ==
  [ Ras |-> 200, Rcs |-> 8300, Rvs |-> 250, Ras_prox |-> 300,
    Rcp |-> 100, Rap |-> 130, Rvp |-> 150, Rap_prox |-> 150,
    Rmv |-> 25, Rtv |-> 25,
    Cas |-> 183, Cvs |-> 7000, Cas_prox |-> 54,
    Cap |-> 2000, Cvp |-> 700, Cap_prox |-> 100,
    Rda |-> 30, Cda |-> 52,
    LV_Ees |-> 221, LV_V0 |-> 5, LV_alpha |-> 29, LV_beta |-> 34,
    LV_Tmax |-> 300, LV_tau |-> 25, LV_AV_delay |-> 160,
    LA_Ees |-> 48, LA_V0 |-> 10, LA_alpha |-> 58, LA_beta |-> 44,
    LA_Tmax |-> 125, LA_tau |-> 20, LA_AV_delay |-> 0,
    RV_Ees |-> 74, RV_V0 |-> 5, RV_alpha |-> 28, RV_beta |-> 34,
    RV_Tmax |-> 300, RV_tau |-> 25, RV_AV_delay |-> 160,
    RA_Ees |-> 38, RA_V0 |-> 10, RA_alpha |-> 46, RA_beta |-> 44,
    RA_Tmax |-> 125, RA_tau |-> 20, RA_AV_delay |-> 0,
    HR |-> 60,
    Ravr |-> 1000000, Ravs |-> 0,
    Rmvr |-> 1000000, Rmvs |-> 0,
    Rpvr |-> 1000000, Rpvs |-> 0,
    Rtvr |-> 1000000, Rtvs |-> 0 ]

\* src/App.tsx:120
PHYSICS_DT == 2
\* src/App.tsx:121
MAX_STEPS_PER_FRAME == 20
\* src/App.tsx:204
bufferRequiredMs == 21000
\* src/App.tsx:182, in mL
maxDelta == 500

(***************************************************************************)
(* Arithmetic helpers                                                      *)
(***************************************************************************)
Abs(x) == IF x < 0 THEN -x ELSE x
Max(a, b) == IF a > b THEN a ELSE b
Min(a, b) == IF a < b THEN a ELSE b

\* const v = a; F(v): a local constant, evaluated once
With(a, F(_)) == CHOOSE r \in { F(v) : v \in {a} } : TRUE

\* the 12 components F(1) .. F(12) of a state vector
Tuple12(F(_)) ==
  << F(1), F(2), F(3), F(4), F(5), F(6), F(7), F(8), F(9), F(10), F(11), F(12) >>

\* JavaScript's % on numbers: the result takes the sign of the dividend
JsMod(a, b) ==
  LET m == Abs(b)
  IN  IF a >= 0 THEN a % m ELSE -((-a) % m)

RECURSIVE Pow2(_)
Pow2(k) == IF k = 0 THEN 1 ELSE 2 * Pow2(k - 1)

\* 1000 * exp(r / 1000) for 0 <= r < 693, a sixth-order Horner series
ExpSeries(r) ==
  LET e1 == 1000 + r \div 6
      e2 == 1000 + (r * e1) \div 5000
      e3 == 1000 + (r * e2) \div 4000
      e4 == 1000 + (r * e3) \div 3000
      e5 == 1000 + (r * e4) \div 2000
  IN  1000 + (r * e5) \div 1000

\* Math.exp: 1000 * exp(x / 1000), by x = 693 k + r and exp(x) = 2^k exp(r)
ExpMilli(x) ==
  LET k == x \div 693
      r == x - 693 * k
  IN  IF k >= 0 THEN ExpSeries(r) * Pow2(Min(k, 20))
      ELSE IF -k > 20 THEN 0
      ELSE ExpSeries(r) \div Pow2(-k)

\* Math.cos: 1000 * cos(pi * n / d) for d > 0, by reduction to [0, pi/2] and
\* Bhaskara's rational approximation cos x = (pi^2 - 4 x^2) / (pi^2 + x^2)
CosPi(n, d) ==
  LET m0 == n % (2 * d)
      m1 == IF m0 > d THEN 2 * d - m0 ELSE m0
      m  == (1000 * m1) \div d
      q  == 1000 - m
  IN  IF 2 * m <= 1000
      THEN (1000 * (1000000 - 4 * m * m)) \div (1000000 + m * m)
      ELSE -((1000 * (1000000 - 4 * q * q)) \div (1000000 + q * q))

RECURSIVE SqrtSearch(_, _, _)
SqrtSearch(n, lo, hi) ==
  IF lo >= hi THEN lo
  ELSE With((lo + hi + 1) \div 2, LAMBDA mid :
         IF mid * mid <= n THEN SqrtSearch(n, mid, hi)
         ELSE SqrtSearch(n, lo, mid - 1))

\* Math.sqrt: 100 * sqrt(n) for n >= 0
Sqrt100(n) ==
  IF n < 200000 THEN SqrtSearch(n * 10000, 0, 46340)
  ELSE 100 * SqrtSearch(n, 0, 46340)

\* a flow on the grid of 3 flow units, on which the RK4 combination
\* dt * (k1 + 2 k2 + 2 k3 + k4) / 6 with dt = 2 is exact
Quantize(f) == 3 * (f \div 3)

(***************************************************************************)
(* src/unnamed/part_000: the physics                                       *)
(***************************************************************************)
\* e_func: the phase is kept multiplied by HR, phase * HR = (_t * HR) % 60000,
\* which is (_t % T) * HR for T = 60000 / HR
e_func(t0, Tmax, tau, HR) ==
  LET ph == JsMod(t0 * HR, 60000)
  IN  IF ph < Tmax * HR
      THEN LET base == ExpMilli(-((60000000 - 1500 * Tmax * HR) \div (tau * HR))) \div 2
           IN  (((1000 - CosPi(ph, Tmax * HR)) \div 2) * (1000 - base)) \div 1000 + base
      ELSE IF 8 * ph < 9 * Tmax * HR
      THEN (CosPi(2 * ph, Tmax * HR) + 1000) \div 2
      ELSE (ExpMilli(-((1000 * (8 * ph - 9 * Tmax * HR)) \div (8 * tau * HR))) * 854) \div 1000

P_ch(V, t, Ees, V0, alpha, beta, Tmax, tau, AV_delay, HR) ==
  LET dV  == V - V0 * VolUnit
      Ped == (beta * (ExpMilli((alpha * dV) \div VolUnit) - 1000)) \div 100
      Pes == (Ees * (dV \div 10)) \div 100
  IN  Ped + (e_func(t - AV_delay, Tmax, tau, HR) * (Pes - Ped)) \div 1000

\* valve_flow: deltaP in 0.001 mmHg, R, Rs, Rr in 0.1; the closed-valve
\* threshold 100000 of the code is 1000000 in that unit
valve_flow(deltaP, R, Rs, Rr) ==
  IF deltaP > 0
  THEN IF Rs = 0
       THEN (deltaP * 100) \div R
       ELSE (100 * (Sqrt100(R * R + (4 * Rs * deltaP) \div 100) - 100 * R)) \div (2 * Rs)
  ELSE IF Rr >= 1000000
       THEN (deltaP * 100) \div (R + Rr)
       ELSE LET disc == R * R - (4 * Rr * deltaP) \div 100
            IN  (100 * (-(100 * R) - Sqrt100(disc))) \div (2 * Rr)

\* a compartment pressure charge / compliance
Pressure(Q, C) == (10 * Q) \div C
\* a resistive segment flow (Pup - Pdown) / R
Segment(dP, R) == Quantize((dP * 100) \div R)

\* rhs, lines 43-59: the pressures of the chambers and the compartments
Pressures(t, y, p) ==
  [ Plv  |-> P_ch(y[5], t, p.LV_Ees, p.LV_V0, p.LV_alpha, p.LV_beta, p.LV_Tmax, p.LV_tau, p.LV_AV_delay, p.HR),
    Pla  |-> P_ch(y[6], t, p.LA_Ees, p.LA_V0, p.LA_alpha, p.LA_beta, p.LA_Tmax, p.LA_tau, p.LA_AV_delay, p.HR),
    Prv  |-> P_ch(y[7], t, p.RV_Ees, p.RV_V0, p.RV_alpha, p.RV_beta, p.RV_Tmax, p.RV_tau, p.RV_AV_delay, p.HR),
    Pra  |-> P_ch(y[8], t, p.RA_Ees, p.RA_V0, p.RA_alpha, p.RA_beta, p.RA_Tmax, p.RA_tau, p.RA_AV_delay, p.HR),
    Paop |-> Pressure(y[9], p.Cas_prox),
    PAP  |-> Pressure(y[11], p.Cap_prox),
    Pda  |-> Pressure(y[10], p.Cda),
    Pas  |-> Pressure(y[2], p.Cas),
    Pvs  |-> Pressure(y[1], p.Cvs),
    Pvp  |-> Pressure(y[4], p.Cvp),
    Pap  |-> Pressure(y[3], p.Cap) ]

\* rhs, lines 61-73: the flows, from the pressures P
Flows(P, p) ==
  [ Ida  |-> Segment(P.Paop - P.Pda, p.Rda),
    Ias  |-> Segment(P.Pda - P.Pas, p.Ras),
    Ics  |-> Segment(P.Pas - P.Pvs, p.Rcs),
    Ivs  |-> Segment(P.Pvs - P.Pra, p.Rvs),
    Ivp  |-> Segment(P.Pvp - P.Pla, p.Rvp),
    Iap  |-> Segment(P.Pap - P.Pvp, p.Rap),
    Icp  |-> Segment(P.PAP - P.Pap, p.Rcp),
    Itv  |-> Quantize(valve_flow(P.Pra - P.Prv, p.Rtv, p.Rtvs, p.Rtvr)),
    Imv  |-> Quantize(valve_flow(P.Pla - P.Plv, p.Rmv, p.Rmvs, p.Rmvr)),
    Iasp |-> Quantize(valve_flow(P.Plv - P.Paop, p.Ras_prox, p.Ravs, p.Ravr)),
    Iapp |-> Quantize(valve_flow(P.Prv - P.PAP, p.Rap_prox, p.Rpvs, p.Rpvr)) ]

\* a variant of Derivatives whose right atrium keeps what it passes on
DerivativesLeaky(P, I) ==
  [ dy  |-> << I.Ics - I.Ivs, I.Ias - I.Ics, I.Icp - I.Iap, I.Iap - I.Ivp,
               I.Imv - I.Iasp, I.Ivp - I.Imv, I.Itv - I.Iapp,
               I.Ivs,
               I.Iasp - I.Ida, I.Ida - I.Ias, I.Iapp - I.Icp, 0 >>,
    aux |-> [ Plv |-> P.Plv, Pla |-> P.Pla, Prv |-> P.Prv, Pra |-> P.Pra,
              AoP |-> P.Paop, PAP |-> P.PAP, Imv |-> I.Imv, Iasp |-> I.Iasp ] ]

\* rhs, lines 75-92: the derivatives and the auxiliary outputs
Derivatives(P, I) ==
  [ dy  |-> << I.Ics - I.Ivs,      \* dQvs
               I.Ias - I.Ics,      \* dQas
               I.Icp - I.Iap,      \* dQap
               I.Iap - I.Ivp,      \* dQvp
               I.Imv - I.Iasp,     \* dQlv
               I.Ivp - I.Imv,      \* dQla
               I.Itv - I.Iapp,     \* dQrv
               I.Ivs - I.Itv,      \* dQra
               I.Iasp - I.Ida,     \* dQas_prox
               I.Ida - I.Ias,      \* dQda
               I.Iapp - I.Icp,     \* dQap_prox
               0 >>,               \* dQtube
    aux |-> [ Plv |-> P.Plv, Pla |-> P.Pla, Prv |-> P.Prv, Pra |-> P.Pra,
              AoP |-> P.Paop, PAP |-> P.PAP, Imv |-> I.Imv, Iasp |-> I.Iasp ] ]

rhs(t, y, p) ==
  With(Pressures(t, y, p), LAMBDA P :
    With(Flows(P, p), LAMBDA I : Derivatives(P, I)))

\* a variant of stepRK4 that returns the aux of the end of the step
stepRK4EndAux(t, y, dt, p) ==
  With(rhs(t, y, p), LAMBDA r1 :
  With(Tuple12(LAMBDA n : y[n] + (dt * r1.dy[n]) \div 2), LAMBDA y_k2 :
  With(rhs(t + dt \div 2, y_k2, p).dy, LAMBDA k2 :
  With(Tuple12(LAMBDA n : y[n] + (dt * k2[n]) \div 2), LAMBDA y_k3 :
  With(rhs(t + dt \div 2, y_k3, p).dy, LAMBDA k3 :
  With(Tuple12(LAMBDA n : y[n] + dt * k3[n]), LAMBDA y_k4 :
  With(rhs(t + dt, y_k4, p).dy, LAMBDA k4 :
  With(Tuple12(LAMBDA n :
         y[n] + (dt * (r1.dy[n] + 2 * k2[n] + 2 * k3[n] + k4[n])) \div 6), LAMBDA yNext :
    [ tNext |-> t + dt,
      yNext |-> yNext,
      aux   |-> rhs(t + dt, yNext, p).aux ]))))))))

stepRK4(t, y, dt, p) ==
  With(rhs(t, y, p), LAMBDA r1 :
  With(Tuple12(LAMBDA n : y[n] + (dt * r1.dy[n]) \div 2), LAMBDA y_k2 :
  With(rhs(t + dt \div 2, y_k2, p).dy, LAMBDA k2 :
  With(Tuple12(LAMBDA n : y[n] + (dt * k2[n]) \div 2), LAMBDA y_k3 :
  With(rhs(t + dt \div 2, y_k3, p).dy, LAMBDA k3 :
  With(Tuple12(LAMBDA n : y[n] + dt * k3[n]), LAMBDA y_k4 :
  With(rhs(t + dt, y_k4, p).dy, LAMBDA k4 :
    [ tNext |-> t + dt,
      yNext |-> Tuple12(LAMBDA n :
                  y[n] + (dt * (r1.dy[n] + 2 * k2[n] + 2 * k3[n] + k4[n])) \div 6),
      aux   |-> r1.aux ])))))))

RECURSIVE SumSeq(_, _)
SumSeq(y, n) == IF n = 0 THEN 0 ELSE y[n] + SumSeq(y, n - 1)

\* getTotalVolume: y.reduce((acc, val) => acc + val, 0)
getTotalVolume(y) == SumSeq(y, Len(y))

(***************************************************************************)
(* src/App.tsx: the state                                                  *)
(*                                                                         *)
(* instances       the React state `instances` and its mirror              *)
(*                 instanceRefs.current (the effect of line 65 copies it   *)
(*                 when the handler that changed it returns)               *)
(* physicsRefs     physicsRefs.current: id -> [t, y, buffer, activeParams] *)
(* timeScale, isPlaying   the React states and their mirror refs           *)
(* lastFrameTimeRef, residueTimeRef   the scheduler's refs                 *)
(* pc, stepsToRun, i, k, isEndDiastole, isEndSystole                       *)
(*                 the position and the locals of a running loop(now):     *)
(*                 step i of stepsToRun, instance k of the forEach         *)
(* nextId          the value Date.now() gives the next addInstance         *)
(* hist            history variables the properties read; no action of the *)
(*                 program reads them                                      *)
(* call            a call of one of the pure functions of the physics      *)
(*                 service on its own: its name, its arguments and, once   *)
(*                 it has returned, its result                             *)
(***************************************************************************)
VARIABLES instances, activeInstanceId, physicsRefs, timeScale, isPlaying,
          lastFrameTimeRef, residueTimeRef,
          pc, stepsToRun, i, k, isEndDiastole, isEndSystole,
          nextId, hist, call

uiVars   == << instances, activeInstanceId, timeScale, isPlaying, nextId >>
loopVars == << pc, stepsToRun, i, k, isEndDiastole, isEndSystole >>
progVars == << instances, activeInstanceId, physicsRefs, timeScale, isPlaying,
               lastFrameTimeRef, residueTimeRef,
               pc, stepsToRun, i, k, isEndDiastole, isEndSystole, nextId >>
vars     == << instances, activeInstanceId, physicsRefs, timeScale, isPlaying,
               lastFrameTimeRef, residueTimeRef,
               pc, stepsToRun, i, k, isEndDiastole, isEndSystole, nextId, hist,
               call >>

\* the ids of the current instances, in array order
InstanceIds == { instances[n].id : n \in 1..Len(instances) }
\* the instance of the given id (instances.find)
InstanceOf(id) == instances[CHOOSE n \in 1..Len(instances) : instances[n].id = id]

\* src/App.tsx:165-177: the fields the end-diastole commit copies
EndDiastoleFields ==
  { "HR",
    "Ras", "Rcs", "Rvs", "Ras_prox", "Rda",
    "Rap", "Rvp", "Rap_prox", "Rcp",
    "Rmv", "Rtv",
    "Cas", "Cvs", "Cas_prox", "Cda",
    "Cap", "Cvp", "Cap_prox",
    "LV_Ees", "LV_V0", "RV_Ees", "RV_V0",
    "LA_Ees", "LA_V0", "RA_Ees", "RA_V0" }

\* a variant of EndSystoleFields with the atrial Tmax as well
EndSystoleFieldsWithAtria ==
  { "LV_alpha", "LV_beta", "LV_tau", "LV_Tmax",
    "RV_alpha", "RV_beta", "RV_tau", "RV_Tmax",
    "LA_alpha", "LA_beta", "LA_tau", "LA_Tmax",
    "RA_alpha", "RA_beta", "RA_tau", "RA_Tmax" }

\* src/App.tsx:194-197: the fields the end-systole commit copies
EndSystoleFields ==
  { "LV_alpha", "LV_beta", "LV_tau", "LV_Tmax",
    "RV_alpha", "RV_beta", "RV_tau", "RV_Tmax",
    "LA_alpha", "LA_beta", "LA_tau",
    "RA_alpha", "RA_beta", "RA_tau" }

\* ap.f = p.f for every f of fields
Commit(ap, p, fields) ==
  [f \in DOMAIN ap |-> IF f \in fields THEN p[f] ELSE ap[f]]

\* (t % T) * HR for T = 60000.0 / HR
Phase(t, HR) == JsMod(t * HR, 60000)

\* a variant of EndDiastole that fires where the phase is exactly 0
EndDiastoleAtZero(t, ap) == Phase(t, ap.HR) = 0

\* src/App.tsx:157
EndDiastole(t, ap) == Phase(t, ap.HR) < Phase(t - PHYSICS_DT, ap.HR)

\* a variant of EndSystole that tests the phase against the live LV_Tmax of
\* the instance being stepped
EndSystoleLive(t, ap) ==
  LET tMax == instances[k].params.LV_Tmax
  IN  /\ Phase(t - PHYSICS_DT, ap.HR) < tMax * ap.HR
      /\ Phase(t, ap.HR) >= tMax * ap.HR

\* src/App.tsx:158-159
EndSystole(t, ap) ==
  LET tMax == ap.LV_Tmax
  IN  /\ Phase(t - PHYSICS_DT, ap.HR) < tMax * ap.HR
      /\ Phase(t, ap.HR) >= tMax * ap.HR

\* a variant of VolumeDelta that always moves by the whole of maxDelta
VolumeDeltaFullStep(y, targetVolume) ==
  IF targetVolume > getTotalVolume(y) THEN maxDelta * VolUnit
  ELSE IF targetVolume < getTotalVolume(y) THEN -(maxDelta * VolUnit)
  ELSE 0

\* a variant of VolumeDelta without the clamp
VolumeDeltaUnclamped(y, targetVolume) == targetVolume - getTotalVolume(y)

\* src/App.tsx:179-183: Math.max(-maxDelta, Math.min(maxDelta, diff))
VolumeDelta(y, targetVolume) ==
  LET currentTotal == getTotalVolume(y)
      targetTotal  == targetVolume
      diff         == targetTotal - currentTotal
  IN  Max(-(maxDelta * VolUnit), Min(maxDelta * VolUnit, diff))

\* a variant of Inject whose dead band excludes 1.0
InjectInclusive(y, delta) ==
  IF Abs(delta) >= VolUnit THEN [y EXCEPT ![1] = @ + delta] ELSE y

\* src/App.tsx:185-187
Inject(y, delta) ==
  IF Abs(delta) > VolUnit THEN [y EXCEPT ![1] = @ + delta] ELSE y

\* src/App.tsx:161-188
CommitEndDiastole(phys, uiInst) ==
  [phys EXCEPT !.activeParams = Commit(phys.activeParams, uiInst.params, EndDiastoleFields),
               !.y = Inject(phys.y, VolumeDelta(phys.y, uiInst.targetVolume))]

\* a variant of CommitEndSystole that copies every live parameter
CommitEndSystoleAll(phys, uiInst) ==
  [phys EXCEPT !.activeParams = uiInst.params]

\* src/App.tsx:190-198
CommitEndSystole(phys, uiInst) ==
  [phys EXCEPT !.activeParams = Commit(phys.activeParams, uiInst.params, EndSystoleFields)]

\* a variant of Record that never removes an entry
RecordKeepAll(buffer, tNext, yNext, aux) ==
  Append(buffer, [t |-> tNext, y |-> yNext, aux |-> aux])

\* a variant of Record that puts the new entry in front of the others
RecordAtHead(buffer, tNext, yNext, aux) ==
  << [t |-> tNext, y |-> yNext, aux |-> aux] >> \o buffer

\* src/App.tsx:204-218: push the record, then shift once if the head is too old
Record(buffer, tNext, yNext, aux) ==
  LET output     == [t |-> tNext, y |-> yNext, aux |-> aux]
      cutoffTime == tNext - bufferRequiredMs
  IN  With(Append(buffer, output), LAMBDA pushed :
        IF Len(pushed) > 0 /\ pushed[1].t < cutoffTime THEN Tail(pushed) ELSE pushed)

\* a variant of SyncTime that starts every instance at the canonical time
SyncTimeInitial(refs) == INITIAL_TIME + 0 * Cardinality(DOMAIN refs)

\* src/App.tsx:78-83
SyncTime(refs) ==
  LET ts == { refs[id].t : id \in DOMAIN refs }
  IN  IF ts = {} THEN INITIAL_TIME
      ELSE LET m == CHOOSE a \in ts : \A b \in ts : b <= a
           IN  IF m > INITIAL_TIME THEN m ELSE INITIAL_TIME

\* a variant of NewPhysics that starts a new instance from the current state
\* vector of a tracked instance
NewPhysicsCloned(refs, inst) ==
  [ t |-> SyncTime(refs),
    y |-> IF DOMAIN refs = {} THEN INITIAL_STATE_VECTOR
          ELSE refs[CHOOSE id \in DOMAIN refs : TRUE].y,
    buffer |-> << >>,
    activeParams |-> inst.params ]

\* src/App.tsx:84-90
NewPhysics(refs, inst) ==
  [ t |-> SyncTime(refs), y |-> INITIAL_STATE_VECTOR, buffer |-> << >>,
    activeParams |-> inst.params ]

RECURSIVE InitRefsKeepAll(_, _, _)
\* a variant of InitRefs without the deletion of lines 111-114
InitRefsKeepAll(refs, insts, n) ==
  IF n > Len(insts) THEN refs
  ELSE IF insts[n].id \in DOMAIN refs
       THEN InitRefsKeepAll(refs, insts, n + 1)
       ELSE InitRefsKeepAll([id \in DOMAIN refs \cup {insts[n].id} |->
                               IF id = insts[n].id THEN NewPhysics(refs, insts[n])
                               ELSE refs[id]],
                            insts, n + 1)

RECURSIVE InitRefs(_, _, _)
\* src/App.tsx:75-115: the effect on [instances], over insts[n..]
InitRefs(refs, insts, n) ==
  IF n > Len(insts)
  THEN [id \in { insts[m].id : m \in 1..Len(insts) } \cap DOMAIN refs |-> refs[id]]
  ELSE IF insts[n].id \in DOMAIN refs
       THEN InitRefs(refs, insts, n + 1)
       ELSE InitRefs([id \in DOMAIN refs \cup {insts[n].id} |->
                        IF id = insts[n].id THEN NewPhysics(refs, insts[n]) ELSE refs[id]],
                     insts, n + 1)

(***************************************************************************)
(* src/App.tsx:123-222: loop(now), one animation frame                     *)
(***************************************************************************)
\* lines 124-125: the first frame takes its own time stamp as the reference
DeltaTimeMs(now) ==
  now - (IF lastFrameTimeRef = 0 THEN now ELSE lastFrameTimeRef)

\* line 135: residueTimeRef.current += deltaTimeMs * timeScaleRef.current
Accumulated(now) == residueTimeRef + DeltaTimeMs(now) * timeScale

\* line 138: Math.floor(residueTimeRef.current / PHYSICS_DT), in 0.01 ms
FloorSteps(acc) == acc \div (PHYSICS_DT * 100)

\* lines 141-146: the steps of the frame
ClampedSteps(acc) ==
  IF FloorSteps(acc) > MAX_STEPS_PER_FRAME THEN MAX_STEPS_PER_FRAME
  ELSE FloorSteps(acc)

\* a variant of Residue that carries the remainder through the clamp too
ResidueCarried(acc) == acc - ClampedSteps(acc) * (PHYSICS_DT * 100)

\* a variant of Residue that never carries a remainder
ResidueDropped(acc) == 0 * acc

\* lines 141-146: the accumulator the frame leaves
Residue(acc) ==
  IF FloorSteps(acc) > MAX_STEPS_PER_FRAME THEN 0
  ELSE acc - FloorSteps(acc) * (PHYSICS_DT * 100)

\* a variant of SyncPhys that commits in every iteration
SyncPhysEveryStep(phys, uiInst) ==
  CommitEndSystole(CommitEndDiastole(phys, uiInst), uiInst)

\* lines 153-198: phase detection and commit for one instance
SyncPhys(phys, uiInst) ==
  LET p1 == IF EndDiastole(phys.t, phys.activeParams)
            THEN CommitEndDiastole(phys, uiInst) ELSE phys
  IN  IF EndSystole(phys.t, phys.activeParams)
      THEN CommitEndSystole(p1, uiInst) ELSE p1

\* lines 200-218: the RK4 step and the buffer for one instance
IntegratePhys(phys) ==
  With(stepRK4(phys.t, phys.y, PHYSICS_DT, phys.activeParams), LAMBDA s :
    [phys EXCEPT !.t = s.tNext, !.y = s.yNext,
                 !.buffer = Record(phys.buffer, s.tNext, s.yNext, s.aux)])

\* lines 123-148: the frame's bookkeeping, up to the first step
loop(now) ==
  /\ pc = "idle"
  /\ lastFrameTimeRef' = now
  /\ IF ~isPlaying
     THEN /\ residueTimeRef' = 0
          /\ UNCHANGED << pc, stepsToRun >>
     ELSE /\ residueTimeRef' = Residue(Accumulated(now))
          /\ stepsToRun' = ClampedSteps(Accumulated(now))
          /\ pc' = IF stepsToRun' > 0 /\ Len(instances) > 0 THEN "sync" ELSE "idle"
  /\ UNCHANGED << uiVars, physicsRefs, i, k, isEndDiastole, isEndSystole >>

\* lines 149-198: phase detection and commit for instance k in step i
Sync ==
  /\ pc = "sync"
  /\ LET uiInst == instances[k]
         id     == uiInst.id
     IN  IF id \notin DOMAIN physicsRefs
         THEN /\ UNCHANGED physicsRefs
              /\ isEndDiastole' = FALSE
              /\ isEndSystole' = FALSE
         ELSE /\ isEndDiastole' = EndDiastole(physicsRefs[id].t, physicsRefs[id].activeParams)
              /\ isEndSystole' = EndSystole(physicsRefs[id].t, physicsRefs[id].activeParams)
              /\ physicsRefs' = [physicsRefs EXCEPT ![id] = SyncPhys(@, uiInst)]
  /\ pc' = "integrate"
  /\ UNCHANGED << uiVars, lastFrameTimeRef, residueTimeRef, stepsToRun, i, k >>

\* a variant of Integrate that nests the loops the other way round: all the
\* steps of instance k, then the next instance
IntegrateInstanceMajor ==
  /\ pc = "integrate"
  /\ LET id == instances[k].id
     IN  IF id \notin DOMAIN physicsRefs
         THEN UNCHANGED physicsRefs
         ELSE physicsRefs' = [physicsRefs EXCEPT ![id] = IntegratePhys(@)]
  /\ IF i + 1 < stepsToRun
     THEN /\ i' = i + 1
          /\ pc' = "sync"
          /\ UNCHANGED << k, isEndDiastole, isEndSystole >>
     ELSE /\ i' = 0
          /\ IF k < Len(instances)
             THEN /\ k' = k + 1
                  /\ pc' = "sync"
                  /\ UNCHANGED << isEndDiastole, isEndSystole >>
             ELSE /\ k' = 1
                  /\ pc' = "idle"
                  /\ isEndDiastole' = FALSE
                  /\ isEndSystole' = FALSE
  /\ UNCHANGED << uiVars, lastFrameTimeRef, residueTimeRef, stepsToRun >>

\* lines 200-220: the RK4 step and the buffer for instance k in step i, then
\* the next instance, the next step or the end of the frame
Integrate ==
  /\ pc = "integrate"
  /\ LET id == instances[k].id
     IN  IF id \notin DOMAIN physicsRefs
         THEN UNCHANGED physicsRefs
         ELSE physicsRefs' = [physicsRefs EXCEPT ![id] = IntegratePhys(@)]
  /\ IF k < Len(instances)
     THEN /\ k' = k + 1
          /\ pc' = "sync"
          /\ UNCHANGED << i, isEndDiastole, isEndSystole >>
     ELSE /\ k' = 1
          /\ IF i + 1 < stepsToRun
             THEN /\ i' = i + 1
                  /\ pc' = "sync"
                  /\ UNCHANGED << isEndDiastole, isEndSystole >>
             ELSE /\ i' = 0
                  /\ pc' = "idle"
                  /\ isEndDiastole' = FALSE
                  /\ isEndSystole' = FALSE
  /\ UNCHANGED << uiVars, lastFrameTimeRef, residueTimeRef, stepsToRun >>

RECURSIVE ForEach(_, _, _)
\* lines 149-219: instanceRefs.current.forEach, from instance n on
ForEach(refs, insts, n) ==
  IF n > Len(insts) THEN refs
  ELSE IF insts[n].id \notin DOMAIN refs THEN ForEach(refs, insts, n + 1)
  ELSE With(SyncPhys(refs[insts[n].id], insts[n]), LAMBDA synced :
       With([refs EXCEPT ![insts[n].id] = IntegratePhys(synced)], LAMBDA stepped :
         ForEach(stepped, insts, n + 1)))

RECURSIVE RunSteps(_, _, _)
\* line 148: for (let i = 0; i < stepsToRun; i++), with n steps left
RunSteps(refs, insts, n) ==
  IF n = 0 THEN refs
  ELSE With(ForEach(refs, insts, 1), LAMBDA stepped : RunSteps(stepped, insts, n - 1))

\* a variant of runFrame without the pause gate of lines 128-132
runFrameUngated(now) ==
  /\ pc = "idle"
  /\ lastFrameTimeRef' = now
  /\ residueTimeRef' = Residue(Accumulated(now))
  /\ stepsToRun' = ClampedSteps(Accumulated(now))
  /\ physicsRefs' = RunSteps(physicsRefs, instances, stepsToRun')
  /\ UNCHANGED << uiVars, pc, i, k, isEndDiastole, isEndSystole >>

\* a variant of runFrame that holds the wall-clock reference while paused
runFrameClockHeld(now) ==
  /\ pc = "idle"
  /\ IF ~isPlaying
     THEN /\ residueTimeRef' = 0
          /\ UNCHANGED << lastFrameTimeRef, stepsToRun, physicsRefs >>
     ELSE /\ lastFrameTimeRef' = now
          /\ residueTimeRef' = Residue(Accumulated(now))
          /\ stepsToRun' = ClampedSteps(Accumulated(now))
          /\ physicsRefs' = RunSteps(physicsRefs, instances, stepsToRun')
  /\ UNCHANGED << uiVars, pc, i, k, isEndDiastole, isEndSystole >>

\* lines 123-222: loop(now) from its call to its return, as one step
runFrame(now) ==
  /\ pc = "idle"
  /\ lastFrameTimeRef' = now
  /\ IF ~isPlaying
     THEN /\ residueTimeRef' = 0
          /\ UNCHANGED << stepsToRun, physicsRefs >>
     ELSE /\ residueTimeRef' = Residue(Accumulated(now))
          /\ stepsToRun' = ClampedSteps(Accumulated(now))
          /\ physicsRefs' = RunSteps(physicsRefs, instances, stepsToRun')
  /\ UNCHANGED << uiVars, pc, i, k, isEndDiastole, isEndSystole >>

(***************************************************************************)
(* src/App.tsx:228-266: the handlers, each with the effects it triggers    *)
(***************************************************************************)
\* lines 228-232; newParams is a function on the keys it sets
updateInstanceParams(id, newParams) ==
  /\ pc = "idle"
  /\ instances' = [n \in 1..Len(instances) |->
        IF instances[n].id = id
        THEN [instances[n] EXCEPT !.params =
                [f \in DOMAIN @ |-> IF f \in DOMAIN newParams THEN newParams[f] ELSE @[f]]]
        ELSE instances[n]]
  /\ physicsRefs' = InitRefs(physicsRefs, instances', 1)
  /\ UNCHANGED << activeInstanceId, timeScale, isPlaying, nextId,
                  lastFrameTimeRef, residueTimeRef, loopVars >>

\* lines 234-238
updateInstanceVolume(id, vol) ==
  /\ pc = "idle"
  /\ instances' = [n \in 1..Len(instances) |->
        IF instances[n].id = id THEN [instances[n] EXCEPT !.targetVolume = vol]
        ELSE instances[n]]
  /\ physicsRefs' = InitRefs(physicsRefs, instances', 1)
  /\ UNCHANGED << activeInstanceId, timeScale, isPlaying, nextId,
                  lastFrameTimeRef, residueTimeRef, loopVars >>

\* lines 245-262
addInstance ==
  /\ pc = "idle"
  /\ LET newId          == nextId
         hasSource      == activeInstanceId \in InstanceIds
         initialParams  == IF hasSource THEN InstanceOf(activeInstanceId).params
                           ELSE DEFAULT_PARAMS
         initialVol     == IF hasSource THEN InstanceOf(activeInstanceId).targetVolume
                           ELSE getTotalVolume(INITIAL_STATE_VECTOR)
     IN  /\ instances' = Append(instances,
               [id |-> newId, params |-> initialParams, targetVolume |-> initialVol])
         /\ activeInstanceId' = newId
         /\ nextId' = nextId + 1
  /\ physicsRefs' = InitRefs(physicsRefs, instances', 1)
  /\ UNCHANGED << timeScale, isPlaying, lastFrameTimeRef, residueTimeRef, loopVars >>

\* lines 263-266; the button that calls it is rendered only while
\* instances.length > 1 (line 887)
removeInstance(id) ==
  /\ pc = "idle"
  /\ Len(instances) > 1
  /\ instances' = SelectSeq(instances, LAMBDA inst : inst.id # id)
  /\ activeInstanceId' = IF activeInstanceId = id THEN instances[1].id
                         ELSE activeInstanceId
  /\ physicsRefs' = InitRefs(physicsRefs, instances', 1)
  /\ UNCHANGED << timeScale, isPlaying, nextId, lastFrameTimeRef, residueTimeRef, loopVars >>

\* line 868: a click on an instance row
setActiveInstanceId(id) ==
  /\ pc = "idle"
  /\ activeInstanceId' = id
  /\ UNCHANGED << instances, physicsRefs, timeScale, isPlaying, nextId,
                  lastFrameTimeRef, residueTimeRef, loopVars >>

\* lines 17, 63, 830
setTimeScale(v) ==
  /\ pc = "idle"
  /\ timeScale' = v
  /\ UNCHANGED << instances, activeInstanceId, physicsRefs, isPlaying, nextId,
                  lastFrameTimeRef, residueTimeRef, loopVars >>

\* lines 18, 64, 482
togglePlay ==
  /\ pc = "idle"
  /\ isPlaying' = ~isPlaying
  /\ UNCHANGED << instances, activeInstanceId, physicsRefs, timeScale, nextId,
                  lastFrameTimeRef, residueTimeRef, loopVars >>

(***************************************************************************)
(* src/App.tsx:717-800: the macro sliders of Controls                      *)
(***************************************************************************)
\* line 723: instances.find(i => i.id === activeInstanceId) || instances[0]
activeInstance ==
  IF activeInstanceId \in InstanceIds THEN InstanceOf(activeInstanceId)
  ELSE instances[1]

\* lines 747, 762, 776, 790: the totals of the four groups
getSystemicR(params) ==
  params.Ras + params.Rcs + params.Rvs + params.Ras_prox + params.Rda
getSystemicC(params) ==
  params.Cas + params.Cvs + params.Cas_prox + params.Cda
getPulmR(params) ==
  params.Rap + params.Rvp + params.Rap_prox + params.Rcp
getPulmC(params) ==
  params.Cap + params.Cvp + params.Cap_prox

\* a variant of Rescale that gives every member the same share of newTotal
RescaleEvenly(params, group, newTotal, currentTotal) ==
  [f \in group |-> (newTotal + 0 * currentTotal) \div Cardinality(group)]

\* lines 751-758: member * ratio for ratio = newTotal / currentTotal, on the
\* grid of the parameters
Rescale(params, group, newTotal, currentTotal) ==
  [f \in group |-> (params[f] * newTotal) \div currentTotal]

\* lines 749-758: if (currentTotal === 0) return; else update the group
setGroup(group, newTotal, currentTotal) ==
  IF currentTotal = 0
  THEN /\ pc = "idle"
       /\ UNCHANGED progVars
  ELSE updateInstanceParams(activeInstance.id,
         Rescale(activeInstance.params, group, newTotal, currentTotal))

\* lines 748-759
setSystemicR(newTotal) ==
  setGroup({ "Ras", "Rcs", "Rvs", "Ras_prox", "Rda" }, newTotal,
           getSystemicR(activeInstance.params))
\* lines 763-773
setSystemicC(newTotal) ==
  setGroup({ "Cas", "Cvs", "Cas_prox", "Cda" }, newTotal,
           getSystemicC(activeInstance.params))
\* lines 777-787
setPulmR(newTotal) ==
  setGroup({ "Rap", "Rvp", "Rap_prox", "Rcp" }, newTotal,
           getPulmR(activeInstance.params))
\* lines 791-800
setPulmC(newTotal) ==
  setGroup({ "Cap", "Cvp", "Cap_prox" }, newTotal,
           getPulmC(activeInstance.params))

\* src/App.tsx:17-61, 75-90: the state after the first render and its effects
InitProgram ==
  /\ instances = << [id |-> 1, params |-> DEFAULT_PARAMS,
                     targetVolume |-> getTotalVolume(INITIAL_STATE_VECTOR)] >>
  /\ activeInstanceId = 1
  /\ physicsRefs = InitRefs(<< >>, instances, 1)
  /\ timeScale = 10
  /\ isPlaying = TRUE
  /\ lastFrameTimeRef = 0
  /\ residueTimeRef = 0
  /\ pc = "idle"
  /\ stepsToRun = 0
  /\ i = 0
  /\ k = 1
  /\ isEndDiastole = FALSE
  /\ isEndSystole = FALSE
  /\ nextId = 2

(***************************************************************************)
(* Bounds and inputs of the checked specifications                         *)
(***************************************************************************)
\* Spec: frames start while the first instance's t is below MaxT
MaxT == 1560
\* Spec, SpecSched: the handlers run at most MaxEdits times in a behaviour
MaxEdits == 1
\* SpecSched: the frames of a behaviour
MaxFrames == 4
\* SpecLong: frames run as one step while t is below FineFrom, step by step
\* from there on, and start while t is below MaxLongT
FineFrom == 21900
MaxLongT == 22040
\* addInstance runs at most MaxAdds times: the ids are 1 .. 1 + MaxAdds
MaxAdds == 1
\* SpecCycle: frames start while fewer than MaxCycleSteps steps have run
MaxCycleSteps == 15000
\* SpecMacro: the handler calls of a behaviour
MaxMacroOps == 3
\* SpecInst: the frames and the handler calls of a behaviour
MaxInstFrames == 4
MaxInstOps == 3
\* SpecBeat: frames start while t is below MaxBeatT, the edit is made while
\* t is below MaxBeatEditT
MaxBeatT == 3060
MaxBeatEditT == 1000
\* SpecPure: the consecutive steps over which the phase detection is followed;
\* (t * HR) % 60000 on steps of 2 ms repeats after at most 30000 steps
MaxScanSteps == 30000
\* SpecPause: the frames and the uses of the play button and the speed slider
MaxPauseFrames == 4
MaxPauseOps == 2

Ids == 1..(1 + MaxAdds)

\* a full set of parameters that differs from DEFAULT_PARAMS in every field
AltParams ==
  [ Ras |-> 220, Rcs |-> 9000, Rvs |-> 270, Ras_prox |-> 320,
    Rcp |-> 110, Rap |-> 140, Rvp |-> 160, Rap_prox |-> 160,
    Rmv |-> 30, Rtv |-> 30,
    Cas |-> 170, Cvs |-> 6500, Cas_prox |-> 60,
    Cap |-> 1900, Cvp |-> 750, Cap_prox |-> 110,
    Rda |-> 35, Cda |-> 55,
    LV_Ees |-> 250, LV_V0 |-> 10, LV_alpha |-> 30, LV_beta |-> 36,
    LV_Tmax |-> 280, LV_tau |-> 30, LV_AV_delay |-> 150,
    LA_Ees |-> 50, LA_V0 |-> 12, LA_alpha |-> 55, LA_beta |-> 45,
    LA_Tmax |-> 120, LA_tau |-> 22, LA_AV_delay |-> 10,
    RV_Ees |-> 80, RV_V0 |-> 10, RV_alpha |-> 27, RV_beta |-> 36,
    RV_Tmax |-> 280, RV_tau |-> 30, RV_AV_delay |-> 150,
    RA_Ees |-> 40, RA_V0 |-> 12, RA_alpha |-> 45, RA_beta |-> 45,
    RA_Tmax |-> 120, RA_tau |-> 22, RA_AV_delay |-> 10,
    HR |-> 75,
    Ravr |-> 500, Ravs |-> 5,
    Rmvr |-> 500, Rmvs |-> 5,
    Rpvr |-> 500, Rpvs |-> 5,
    Rtvr |-> 500, Rtvs |-> 5 ]

\* the partial parameter sets updateInstanceParams is called with; the last
\* one is an aortic regurgitation resistance of -50
ParamEdits ==
  { [HR |-> 120], [LV_Tmax |-> 250], AltParams, [Ravr |-> -500] }

\* the volumes updateInstanceVolume is called with: 10000 mL above the
\* initial total, the slider's minimum of 1000 mL, 0.5 mL and 1.0 mL above
\* the initial total
VolumeEdits ==
  { getTotalVolume(INITIAL_STATE_VECTOR) + 10000 * VolUnit,
    1000 * VolUnit,
    getTotalVolume(INITIAL_STATE_VECTOR) + VolUnit \div 2,
    getTotalVolume(INITIAL_STATE_VECTOR) + VolUnit }

\* SpecBeat: the heart rates and the LV_Tmax updateInstanceParams is called
\* with, and the volumes updateInstanceVolume is called with: the slider's
\* minimum of 1000 mL, 501 mL and 1200 mL above the initial total
BeatEdits == { [HR |-> 100], [HR |-> 120], [HR |-> 30], [LV_Tmax |-> 350] }
BeatVolumes ==
  { 1000 * VolUnit,
    getTotalVolume(INITIAL_STATE_VECTOR) + 501 * VolUnit,
    getTotalVolume(INITIAL_STATE_VECTOR) + 1200 * VolUnit }

\* wall-clock frame deltas, in 0.1 ms
PhaseDeltas == { 400 }
SchedDeltas == { 39, 410, 100000 }
\* the time stamp of the first frame, in 0.1 ms
FirstStamps == { 1000 }
\* the time stamps a frame can have after a frame at time stamp last
Stamps(last, deltas) ==
  IF last = 0 THEN FirstStamps ELSE { last + d : d \in deltas }
\* playback speeds, in 0.1
TimeScales == { 10, 20 }
\* SpecInst: the frame delta (4.1 ms) and the edit of the live parameters
InstDeltas == { 41 }
InstEdits == { [HR |-> 120] }

(***************************************************************************)
(* History variables                                                       *)
(*   frames, edits, adds   how often a frame, a handler, addInstance ran   *)
(*   D, N      the wall-clock deltas (0.1 ms) and the steps of the frames  *)
(*   clean     no frame so far was paused, clamped or at a speed # 1.0     *)
(*   raw       floor(accumulator / 2.0) of the last frame, before the      *)
(*             clamp (-1: the last frame was paused, or there was none)    *)
(*   prevResidue   the accumulator as the last frame found it              *)
(*   edSeen    per instance: an end-diastole event has fired               *)
(*   pend      per instance: the live parameters were changed and no       *)
(*             end-diastole event has fired since; between: that change    *)
(*             came after an end-diastole event; snap: activeParams as it  *)
(*             was before the change                                       *)
(*   pendEv, snapEv   the same, up to the next end-diastole or end-systole *)
(*             event                                                       *)
(*   t0        per instance: its t when the last frame started, or when a  *)
(*             handler ran since                                           *)
(*   steps     the steps of the last frame (0: it was paused, a handler    *)
(*             has run since, or there was none)                           *)
(*   macro     the macro slider the last handler call was, and its value   *)
(*   ED        the iterations of the frames so far that fired end-diastole *)
(*             for the first instance, where the live HR is the active one *)
(***************************************************************************)
HistInit ==
  hist = [ frames |-> 0, edits |-> 0, adds |-> 0,
           D |-> 0, N |-> 0, clean |-> TRUE, raw |-> -1, prevResidue |-> 0,
           t0 |-> [id \in Ids |-> INITIAL_TIME], steps |-> 0, ED |-> 0,
           macro |-> [group |-> "none", newTotal |-> 0],
           edSeen  |-> [id \in Ids |-> FALSE],
           pend    |-> [id \in Ids |-> FALSE],
           between |-> [id \in Ids |-> FALSE],
           snap    |-> [id \in Ids |-> DEFAULT_PARAMS],
           pendEv  |-> [id \in Ids |-> FALSE],
           snapEv  |-> [id \in Ids |-> DEFAULT_PARAMS],
           lastEv |-> "none", alternate |-> TRUE, sinceED |-> 0,
           gap0 |-> 0, edAfter |-> 0 ]

\* the iterations of a frame of n steps that fire end-diastole for phys:
\* iteration j finds t advanced by j steps (lines 153-157, 201)
EndDiastoleCount(phys, n) ==
  Cardinality({ j \in 0..(n - 1) :
                  EndDiastole(phys.t + j * PHYSICS_DT, phys.activeParams) })

\* a frame with time stamp now has run
HistFrame(now) ==
  LET d   == IF lastFrameTimeRef = 0 THEN 0 ELSE now - lastFrameTimeRef
      acc == residueTimeRef + d * timeScale
      raw == acc \div 200
  IN  hist' = [hist EXCEPT
        !.frames = @ + 1,
        !.D = IF isPlaying THEN @ + d ELSE @,
        !.N = IF isPlaying THEN @ + stepsToRun' ELSE @,
        !.clean = @ /\ isPlaying /\ timeScale = 10 /\ raw <= 20,
        !.raw = IF isPlaying THEN raw ELSE -1,
        !.prevResidue = residueTimeRef,
        !.t0 = [id \in Ids |-> IF id \in DOMAIN physicsRefs
                                THEN physicsRefs[id].t ELSE @[id]],
        !.steps = IF isPlaying THEN stepsToRun' ELSE 0,
        !.ED = IF isPlaying /\ Len(instances) > 0 /\ instances[1].id \in DOMAIN physicsRefs
               THEN @ + EndDiastoleCount(physicsRefs[instances[1].id], stepsToRun')
               ELSE @]

\* Sync has run for instance k
HistSync ==
  LET id == instances[k].id
  IN  hist' = [hist EXCEPT
        !.edSeen[id]  = @ \/ isEndDiastole',
        !.pend[id]    = @ /\ ~isEndDiastole',
        !.between[id] = @ /\ ~isEndDiastole',
        !.pendEv[id]  = @ /\ ~isEndDiastole' /\ ~isEndSystole']

\* a handler has run; it may have changed the live parameters of instances
HistEdit ==
  LET changed == { id \in InstanceIds \cap DOMAIN physicsRefs :
                     /\ id \in { instances'[n].id : n \in 1..Len(instances') }
                     /\ \E n \in 1..Len(instances') :
                          /\ instances'[n].id = id
                          /\ instances'[n].params # InstanceOf(id).params }
  IN  hist' = [hist EXCEPT
        !.edits   = @ + 1,
        !.pend    = [id \in Ids |-> @[id] \/ id \in changed],
        !.between = [id \in Ids |-> IF id \in changed /\ ~hist.pend[id]
                                    THEN hist.edSeen[id] ELSE @[id]],
        !.snap    = [id \in Ids |-> IF id \in changed /\ ~hist.pend[id]
                                    THEN physicsRefs[id].activeParams ELSE @[id]],
        !.pendEv  = [id \in Ids |-> @[id] \/ id \in changed],
        !.snapEv  = [id \in Ids |-> IF id \in changed /\ ~hist.pendEv[id]
                                    THEN physicsRefs[id].activeParams ELSE @[id]]]

(***************************************************************************)
(* Spec: one instance stepped through its first beats, frame by frame and  *)
(* step by step, while the handlers edit its live parameters and volume    *)
(***************************************************************************)
\* no pure function is being called on its own
NoCall == [fn |-> "none", done |-> TRUE]

Init == InitProgram /\ HistInit /\ call = NoCall

PhaseFrame ==
  /\ physicsRefs[instances[1].id].t < MaxT
  /\ \E now \in Stamps(lastFrameTimeRef, PhaseDeltas) : loop(now)
  /\ UNCHANGED hist
  /\ UNCHANGED call

PhaseSync == Sync /\ HistSync /\ UNCHANGED call

PhaseIntegrate == Integrate /\ UNCHANGED hist /\ UNCHANGED call

EditParams ==
  /\ hist.edits < MaxEdits
  /\ activeInstanceId \in InstanceIds
  /\ \E e \in ParamEdits : updateInstanceParams(activeInstanceId, e)
  /\ HistEdit
  /\ UNCHANGED call

EditVolume ==
  /\ hist.edits < MaxEdits
  /\ activeInstanceId \in InstanceIds
  /\ \E v \in VolumeEdits : updateInstanceVolume(activeInstanceId, v)
  /\ HistEdit
  /\ UNCHANGED call

Next ==
  \/ PhaseFrame
  \/ PhaseSync
  \/ PhaseIntegrate
  \/ EditParams
  \/ EditVolume

Spec == Init /\ [][Next]_vars

(***************************************************************************)
(* SpecSched: whole frames of any length, paused or not, at any speed,     *)
(* over the first instance and the ones addInstance adds                   *)
(***************************************************************************)
SchedFrame ==
  /\ hist.frames < MaxFrames
  /\ \E now \in Stamps(lastFrameTimeRef, SchedDeltas) :
       /\ runFrame(now)
       /\ HistFrame(now)
  /\ UNCHANGED call

\* a control has been used
HistControl == hist' = [hist EXCEPT !.edits = @ + 1]

SchedToggle ==
  /\ hist.edits < MaxEdits
  /\ togglePlay
  /\ HistControl
  /\ UNCHANGED call

SchedSpeed ==
  /\ hist.edits < MaxEdits
  /\ \E v \in TimeScales \ {timeScale} : setTimeScale(v)
  /\ HistControl
  /\ UNCHANGED call

SchedAdd ==
  /\ hist.edits < MaxEdits
  /\ hist.adds < MaxAdds
  /\ addInstance
  /\ hist' = [hist EXCEPT !.edits = @ + 1, !.adds = @ + 1]
  /\ UNCHANGED call

NextSched ==
  \/ SchedFrame
  \/ SchedToggle
  \/ SchedSpeed
  \/ SchedAdd

SpecSched == Init /\ [][NextSched]_vars

(***************************************************************************)
(* SpecLong: one instance played for more than the 21000 ms the buffer     *)
(* keeps, whole frames first, step by step around and after the horizon    *)
(***************************************************************************)
LongFrame ==
  /\ physicsRefs[instances[1].id].t < FineFrom
  /\ \E now \in Stamps(lastFrameTimeRef, PhaseDeltas) :
       /\ runFrame(now)
       /\ HistFrame(now)
  /\ UNCHANGED call

LongLoop ==
  /\ physicsRefs[instances[1].id].t >= FineFrom
  /\ physicsRefs[instances[1].id].t < MaxLongT
  /\ \E now \in Stamps(lastFrameTimeRef, PhaseDeltas) : loop(now)
  /\ UNCHANGED hist
  /\ UNCHANGED call

LongSync == Sync /\ HistSync /\ UNCHANGED call

LongIntegrate == Integrate /\ UNCHANGED hist /\ UNCHANGED call

NextLong ==
  \/ LongFrame
  \/ LongLoop
  \/ LongSync
  \/ LongIntegrate

SpecLong == Init /\ [][NextLong]_vars

(***************************************************************************)
(* SpecCycle: one instance with the default parameters, no edits, played   *)
(* in whole frames of 20 steps for 30000 ms of simulated time              *)
(***************************************************************************)
CycleFrame ==
  /\ hist.N < MaxCycleSteps
  /\ \E now \in Stamps(lastFrameTimeRef, PhaseDeltas) :
       /\ runFrame(now)
       /\ HistFrame(now)
  /\ UNCHANGED call

NextCycle ==
  \/ CycleFrame

SpecCycle == Init /\ [][NextCycle]_vars

(***************************************************************************)
(* SpecInst: instances are added and removed, their live parameters        *)
(* edited, the playback paused and its speed changed between frames that   *)
(* run step by step                                                        *)
(***************************************************************************)
\* a handler has run between two frames
HistOp ==
  hist' = [hist EXCEPT
    !.edits = @ + 1,
    !.adds  = IF Len(instances') > Len(instances) THEN @ + 1 ELSE @,
    !.t0    = [id \in Ids |-> IF id \in DOMAIN physicsRefs'
                               THEN physicsRefs'[id].t ELSE @[id]],
    !.steps = 0]

InstLoop ==
  /\ hist.frames < MaxInstFrames
  /\ \E now \in Stamps(lastFrameTimeRef, InstDeltas) :
       /\ loop(now)
       /\ HistFrame(now)
  /\ UNCHANGED call

InstSync == Sync /\ HistSync /\ UNCHANGED call

InstIntegrate == Integrate /\ UNCHANGED hist /\ UNCHANGED call

InstAdd ==
  /\ hist.edits < MaxInstOps
  /\ hist.adds < MaxAdds
  /\ addInstance
  /\ HistOp
  /\ UNCHANGED call

InstRemove ==
  /\ hist.edits < MaxInstOps
  /\ \E id \in InstanceIds : removeInstance(id)
  /\ HistOp
  /\ UNCHANGED call

InstEdit ==
  /\ hist.edits < MaxInstOps
  /\ activeInstanceId \in InstanceIds
  /\ \E e \in InstEdits : updateInstanceParams(activeInstanceId, e)
  /\ HistOp
  /\ UNCHANGED call

InstToggle ==
  /\ hist.edits < MaxInstOps
  /\ togglePlay
  /\ HistOp
  /\ UNCHANGED call

InstSpeed ==
  /\ hist.edits < MaxInstOps
  /\ \E v \in TimeScales \ {timeScale} : setTimeScale(v)
  /\ HistOp
  /\ UNCHANGED call

NextInst ==
  \/ InstLoop
  \/ InstSync
  \/ InstIntegrate
  \/ InstAdd
  \/ InstRemove
  \/ InstEdit
  \/ InstToggle
  \/ InstSpeed

SpecInst == Init /\ [][NextInst]_vars

(***************************************************************************)
(* SpecBeat: one instance stepped through its first three beats after one  *)
(* edit of its heart rate, LV_Tmax or target volume that is left in place  *)
(*   lastEv      the phase event that fired last                           *)
(*   alternate   no event has fired twice in a row, nor both in one        *)
(*               iteration                                                 *)
(*   sinceED     the iterations run since the last end-diastole event      *)
(*   gap0        targetVolume - total volume when the target was set       *)
(*   edAfter     the end-diastole events since the target was set          *)
(***************************************************************************)
BeatFrame ==
  /\ physicsRefs[instances[1].id].t < MaxBeatT
  /\ \E now \in Stamps(lastFrameTimeRef, PhaseDeltas) : loop(now)
  /\ UNCHANGED hist
  /\ UNCHANGED call

BeatSync ==
  /\ Sync
  /\ hist' = [hist EXCEPT
        !.lastEv    = IF isEndSystole' THEN "ES"
                      ELSE IF isEndDiastole' THEN "ED" ELSE @,
        !.alternate = /\ @
                      /\ ~(isEndDiastole' /\ isEndSystole')
                      /\ isEndDiastole' => hist.lastEv # "ED"
                      /\ isEndSystole' => hist.lastEv # "ES",
        !.sinceED   = IF isEndDiastole' THEN 0 ELSE @ + 1,
        !.edAfter   = IF isEndDiastole' THEN @ + 1 ELSE @]
  /\ UNCHANGED call

BeatIntegrate == Integrate /\ UNCHANGED hist /\ UNCHANGED call

BeatEditParams ==
  /\ hist.edits = 0
  /\ physicsRefs[instances[1].id].t < MaxBeatEditT
  /\ \E e \in BeatEdits : updateInstanceParams(activeInstanceId, e)
  /\ hist' = [hist EXCEPT !.edits = @ + 1]
  /\ UNCHANGED call

BeatEditVolume ==
  /\ hist.edits = 0
  /\ physicsRefs[instances[1].id].t < MaxBeatEditT
  /\ \E v \in BeatVolumes :
       /\ updateInstanceVolume(activeInstanceId, v)
       /\ hist' = [hist EXCEPT
             !.edits = @ + 1,
             !.gap0 = v - getTotalVolume(physicsRefs[activeInstanceId].y),
             !.edAfter = 0]
  /\ UNCHANGED call

NextBeat ==
  \/ BeatFrame
  \/ BeatSync
  \/ BeatIntegrate
  \/ BeatEditParams
  \/ BeatEditVolume

SpecBeat == Init /\ [][NextBeat]_vars

(***************************************************************************)
(* SpecPause: one instance, whole frames of short, long and very long wall *)
(* clock deltas, paused and resumed and played at two speeds               *)
(***************************************************************************)
PauseFrame ==
  /\ hist.frames < MaxPauseFrames
  /\ \E now \in Stamps(lastFrameTimeRef, SchedDeltas) :
       /\ runFrame(now)
       /\ HistFrame(now)
  /\ UNCHANGED call

PauseToggle ==
  /\ hist.edits < MaxPauseOps
  /\ togglePlay
  /\ HistControl
  /\ UNCHANGED call

PauseSpeed ==
  /\ hist.edits < MaxPauseOps
  /\ \E v \in TimeScales \ {timeScale} : setTimeScale(v)
  /\ HistControl
  /\ UNCHANGED call

NextPause ==
  \/ PauseFrame
  \/ PauseToggle
  \/ PauseSpeed

SpecPause == Init /\ [][NextPause]_vars

(***************************************************************************)
(* SpecMacro: the macro sliders rescale the groups of the live parameters  *)
(* of the active instance, of one instance or of two                       *)
(***************************************************************************)
\* values of the four macro sliders, in the units of the parameters: 0 and
\* the ends of the sliders' ranges (lines 932-957), and values between
SystemicRInputs == { 0, 1000, 9080, 30000 }
SystemicCInputs == { 0, 1000, 20000 }
PulmRInputs == { 0, 100, 777, 2000 }
PulmCInputs == { 0, 500, 10000 }

\* a macro slider has been moved
HistMacro(group, newTotal) ==
  hist' = [hist EXCEPT !.edits = @ + 1,
                       !.macro = [group |-> group, newTotal |-> newTotal]]

MacroSystemicR ==
  /\ hist.edits < MaxMacroOps
  /\ \E v \in SystemicRInputs : setSystemicR(v) /\ HistMacro("SystemicR", v)
  /\ UNCHANGED call

MacroSystemicC ==
  /\ hist.edits < MaxMacroOps
  /\ \E v \in SystemicCInputs : setSystemicC(v) /\ HistMacro("SystemicC", v)
  /\ UNCHANGED call

MacroPulmR ==
  /\ hist.edits < MaxMacroOps
  /\ \E v \in PulmRInputs : setPulmR(v) /\ HistMacro("PulmR", v)
  /\ UNCHANGED call

MacroPulmC ==
  /\ hist.edits < MaxMacroOps
  /\ \E v \in PulmCInputs : setPulmC(v) /\ HistMacro("PulmC", v)
  /\ UNCHANGED call

MacroAdd ==
  /\ hist.edits < MaxMacroOps
  /\ hist.adds < MaxAdds
  /\ addInstance
  /\ hist' = [hist EXCEPT !.edits = @ + 1, !.adds = @ + 1,
                          !.macro = [group |-> "none", newTotal |-> 0]]
  /\ UNCHANGED call

MacroSelect ==
  /\ hist.edits < MaxMacroOps
  /\ \E id \in InstanceIds \ {activeInstanceId} : setActiveInstanceId(id)
  /\ hist' = [hist EXCEPT !.edits = @ + 1,
                          !.macro = [group |-> "none", newTotal |-> 0]]
  /\ UNCHANGED call

NextMacro ==
  \/ MacroSystemicR
  \/ MacroSystemicC
  \/ MacroPulmR
  \/ MacroPulmC
  \/ MacroAdd
  \/ MacroSelect

SpecMacro == Init /\ [][NextMacro]_vars

(***************************************************************************)
(* SpecPure: valve_flow and e_func called on their own, on arguments from  *)
(* the parameters' ranges and on both sides of 0, and the phase detection  *)
(* of the loop followed over consecutive steps with the ActiveParameters   *)
(* held                                                                    *)
(***************************************************************************)
\* pressure gradients, in 0.001 mmHg
GradientInputs == { -5000, -1, 0, 1, 5000 }
\* R, Rs, Rr in 0.1: Rmv, Rap_prox, Ras_prox of DEFAULT_PARAMS; no stenosis
\* and a stenosis of 0.5; a regurgitation of 50, of 500 and the closed valve
ResistanceInputs == { DEFAULT_PARAMS.Rmv, DEFAULT_PARAMS.Rap_prox, DEFAULT_PARAMS.Ras_prox }
StenosisInputs == { DEFAULT_PARAMS.Ravs, 5 }
RegurgitationInputs == { 500, 5000, DEFAULT_PARAMS.Ravr }

ValveCalls ==
  { [ fn |-> "valve_flow", done |-> FALSE, deltaP |-> dP, R |-> R, Rs |-> Rs, Rr |-> Rr ] :
      dP \in GradientInputs, R \in ResistanceInputs,
      Rs \in StenosisInputs, Rr \in RegurgitationInputs }

\* times in ms, before and after 0; whole periods to shift them by
TimeInputs == { -950, -300, -50, 0, 50, 300, 950 }
PeriodInputs == { -1, 1, 2 }
\* Tmax and tau of the ventricles and of the atria; heart rates whose period
\* 60000 / HR is a whole number of ms
ChamberInputs == { << DEFAULT_PARAMS.LV_Tmax, DEFAULT_PARAMS.LV_tau >>,
                   << DEFAULT_PARAMS.LA_Tmax, DEFAULT_PARAMS.LA_tau >> }
RateInputs == { DEFAULT_PARAMS.HR, 75 }

ActivationCalls ==
  { [ fn |-> "e_func", done |-> FALSE, t |-> t, periods |-> n,
      Tmax |-> c[1], tau |-> c[2], HR |-> HR ] :
      t \in TimeInputs, n \in PeriodInputs, c \in ChamberInputs, HR \in RateInputs }

\* heart rates of the HR slider, its two ends included, with the default
\* LV_Tmax; the time of the first step and of the first end-diastole event
DetectionRates == { 30, DEFAULT_PARAMS.HR, 100, 120, 199, 200 }
DetectionStarts == { INITIAL_TIME, INITIAL_TIME + 46 }

DetectionCalls ==
  { [ fn |-> "isEndSystole", done |-> FALSE, t |-> t, HR |-> HR,
      LV_Tmax |-> DEFAULT_PARAMS.LV_Tmax ] :
      t \in DetectionStarts, HR \in DetectionRates }

InitPure ==
  /\ InitProgram
  /\ HistInit
  /\ call \in ValveCalls \cup ActivationCalls \cup DetectionCalls

\* valve_flow(deltaP, R, Rs, Rr) returns
CallValveFlow ==
  /\ call.fn = "valve_flow"
  /\ ~call.done
  /\ call' = [ fn |-> "valve_flow", done |-> TRUE,
               deltaP |-> call.deltaP, R |-> call.R, Rs |-> call.Rs, Rr |-> call.Rr,
               result |-> valve_flow(call.deltaP, call.R, call.Rs, call.Rr) ]
  /\ UNCHANGED << progVars, hist >>

\* e_func(t, Tmax, tau, HR) and e_func(t + periods * T, Tmax, tau, HR) return
CallActivation ==
  /\ call.fn = "e_func"
  /\ ~call.done
  /\ call' = [ fn |-> "e_func", done |-> TRUE,
               t |-> call.t, periods |-> call.periods,
               Tmax |-> call.Tmax, tau |-> call.tau, HR |-> call.HR,
               result  |-> e_func(call.t, call.Tmax, call.tau, call.HR),
               shifted |-> e_func(call.t + call.periods * (60000 \div call.HR),
                                  call.Tmax, call.tau, call.HR) ]
  /\ UNCHANGED << progVars, hist >>

\* src/App.tsx:153-159 in MaxScanSteps consecutive iterations from time t on,
\* t advancing by PHYSICS_DT per iteration (line 201), with the active HR and
\* LV_Tmax as they are: whether an iteration finds end-systole, or
\* end-diastole
CallDetection ==
  /\ call.fn = "isEndSystole"
  /\ ~call.done
  /\ LET ap == [DEFAULT_PARAMS EXCEPT !.HR = call.HR, !.LV_Tmax = call.LV_Tmax]
     IN  call' = [ fn |-> "isEndSystole", done |-> TRUE, t |-> call.t,
                   HR |-> call.HR, LV_Tmax |-> call.LV_Tmax,
                   fires |-> \E j \in 0..(MaxScanSteps - 1) :
                               EndSystole(call.t + j * PHYSICS_DT, ap),
                   wraps |-> \E j \in 0..(MaxScanSteps - 1) :
                               EndDiastole(call.t + j * PHYSICS_DT, ap) ]
  /\ UNCHANGED << progVars, hist >>

NextPure ==
  \/ CallValveFlow
  \/ CallActivation
  \/ CallDetection

SpecPure == InitPure /\ [][NextPure]_vars

(***************************************************************************)
(* Properties of the phase-boundary commits (Spec)                         *)
(***************************************************************************)
\* the instance the running iteration is about, and its physics state
StepId == instances[k].id
\* an iteration's phase detection and commit has just run for a tracked instance
AfterSync == pc = "integrate" /\ StepId \in DOMAIN physicsRefs
\* the step is the phase detection and commit of a tracked instance
IsSyncStep == pc = "sync" /\ pc' = "integrate" /\ StepId \in DOMAIN physicsRefs

\* C1 as stated: a change of a live parameter made between two end-diastole
\* events leaves ActiveParameters as it was before the change, in every
\* state up to the next end-diastole event
C1_UnalteredUntilEndDiastole ==
  \A id \in DOMAIN physicsRefs :
    (hist.pend[id] /\ hist.between[id]) =>
      physicsRefs[id].activeParams = hist.snap[id]

\* C1 amended: a change of a live parameter leaves ActiveParameters as it was
\* before the change up to the next end-diastole or end-systole event, and
\* every field but the fourteen the end-systole commit copies up to the next
\* end-diastole event
C1_UnalteredUntilPhaseEvent ==
  \A id \in DOMAIN physicsRefs :
    /\ hist.pendEv[id] => physicsRefs[id].activeParams = hist.snapEv[id]
    /\ hist.pend[id] =>
         \A f \in DOMAIN DEFAULT_PARAMS \ EndSystoleFields :
           physicsRefs[id].activeParams[f] = hist.snap[id][f]

\* an edit made after an end-diastole event, an end-systole event has fired
\* since and no end-diastole event: the timing fields are committed, HR is not
C1_Witness ==
  \E id \in DOMAIN physicsRefs :
    /\ hist.pend[id] /\ hist.between[id] /\ ~hist.pendEv[id]
    /\ physicsRefs[id].activeParams # hist.snap[id]
    /\ physicsRefs[id].activeParams.LV_Tmax = InstanceOf(id).params.LV_Tmax
    /\ physicsRefs[id].activeParams.HR # InstanceOf(id).params.HR

\* C2: ActiveParameters of an instance changes only in the phase detection
\* and commit of an iteration that fires end-diastole or end-systole for it,
\* before the iteration's RK4 step: t and the buffer are as before the
\* iteration; no other step, an edit of the live parameters included,
\* changes it
C2_CommitOnlyAtPhaseEvent ==
  [][\A id \in DOMAIN physicsRefs \cap DOMAIN physicsRefs' :
       physicsRefs'[id].activeParams # physicsRefs[id].activeParams =>
         /\ IsSyncStep
         /\ StepId = id
         /\ isEndDiastole' \/ isEndSystole'
         /\ physicsRefs'[id].t = physicsRefs[id].t
         /\ physicsRefs'[id].buffer = physicsRefs[id].buffer]_vars

\* an end-diastole commit has just copied an edited HR
C2_Witness ==
  /\ AfterSync
  /\ isEndDiastole
  /\ physicsRefs[StepId].activeParams.HR = 120
  /\ hist.edits > 0

\* C3 as stated: right after an end-systole event alpha, beta, tau and Tmax
\* of LV, RV, LA and RA in ActiveParameters equal the live values
C3_AllTimingCopied ==
  (AfterSync /\ isEndSystole) =>
    \A f \in { "LV_alpha", "LV_beta", "LV_tau", "LV_Tmax",
               "RV_alpha", "RV_beta", "RV_tau", "RV_Tmax",
               "LA_alpha", "LA_beta", "LA_tau", "LA_Tmax",
               "RA_alpha", "RA_beta", "RA_tau", "RA_Tmax" } :
      physicsRefs[StepId].activeParams[f] = instances[k].params[f]

\* C4 as stated: right after an end-diastole event HR, every resistance,
\* every compliance and Ees and V0 of the four chambers in ActiveParameters
\* equal the live values
C4_AllStructuralCopied ==
  (AfterSync /\ isEndDiastole) =>
    \A f \in { "HR",
               "Ras", "Rcs", "Rvs", "Ras_prox", "Rcp", "Rap", "Rvp",
               "Rap_prox", "Rmv", "Rtv", "Rda",
               "Ravr", "Ravs", "Rmvr", "Rmvs", "Rpvr", "Rpvs", "Rtvr", "Rtvs",
               "Cas", "Cvs", "Cas_prox", "Cap", "Cvp", "Cap_prox", "Cda",
               "LV_Ees", "LV_V0", "LA_Ees", "LA_V0",
               "RV_Ees", "RV_V0", "RA_Ees", "RA_V0" } :
      physicsRefs[StepId].activeParams[f] = instances[k].params[f]

\* C5: an iteration fires end-systole exactly when
\* prevPhase < LV_Tmax <= currPhase for the phases (t - 2) mod T and t mod T,
\* T = 60000 / HR, with LV_Tmax and HR of ActiveParameters as they are when
\* the iteration starts (both sides are multiplied by HR)
C5_EndSystoleFromActive ==
  [][IsSyncStep =>
       LET phys == physicsRefs[StepId]
           HR   == phys.activeParams.HR
           tMax == phys.activeParams.LV_Tmax
           prevPhaseHR == ((phys.t - 2) * HR) % 60000
           currPhaseHR == (phys.t * HR) % 60000
       IN  isEndSystole' <=> (prevPhaseHR < tMax * HR /\ tMax * HR <= currPhaseHR)]_vars

\* end-systole has fired where the phase crosses the LV_Tmax that was active,
\* not the edited live one the commit has just copied
C5_Witness ==
  /\ AfterSync
  /\ isEndSystole
  /\ hist.edits > 0
  /\ LET phys == physicsRefs[StepId]
     IN  /\ phys.activeParams.LV_Tmax = instances[k].params.LV_Tmax
         /\ ((phys.t - 2) * phys.activeParams.HR) % 60000
              >= phys.activeParams.LV_Tmax * phys.activeParams.HR

\* C10: an iteration that fires end-diastole adds
\* clamp(targetVolume - total, -500 mL, 500 mL) to the systemic-venous
\* component when that is more than 1 mL in magnitude and nothing otherwise,
\* changes no other component, and changes the total by at most 500 mL; a
\* difference of 10000 mL adds exactly 500 mL; an iteration that does not
\* fire it changes no component
C10_VolumeClamp ==
  [][IsSyncStep =>
       LET y       == physicsRefs[StepId].y
           yNew    == physicsRefs'[StepId].y
           diff    == instances[k].targetVolume - getTotalVolume(y)
           clamped == IF diff > 500 * VolUnit THEN 500 * VolUnit
                      ELSE IF diff < -(500 * VolUnit) THEN -(500 * VolUnit)
                      ELSE diff
           added   == yNew[1] - y[1]
       IN  /\ \A n \in 2..12 : yNew[n] = y[n]
           /\ isEndDiastole' =>
                /\ added = (IF Abs(clamped) > VolUnit THEN clamped ELSE 0)
                /\ Abs(getTotalVolume(yNew) - getTotalVolume(y)) <= 500 * VolUnit
                /\ diff = 10000 * VolUnit => added = 500 * VolUnit
           /\ ~isEndDiastole' => added = 0]_vars

\* an end-diastole event has just injected 500 mL of a difference of 10000 mL
C10_Witness ==
  /\ AfterSync
  /\ isEndDiastole
  /\ instances[k].targetVolume - getTotalVolume(physicsRefs[StepId].y)
       = (10000 - 500) * VolUnit
  /\ getTotalVolume(physicsRefs[StepId].y)
       = getTotalVolume(INITIAL_STATE_VECTOR) + 500 * VolUnit

\* C19: outside its RK4 step the state vector of an instance changes only
\* in the commit of an iteration that fires end-diastole for it, only in the
\* systemic-venous component, by delta = clamp(targetVolume - total, -500,
\* 500), and only when |delta| > 1.0; a commit with |delta| <= 1.0 or without
\* end-diastole, and every handler, leaves all 12 components as they are
C19_InjectionConfined ==
  [][\A id \in DOMAIN physicsRefs \cap DOMAIN physicsRefs' :
       LET y     == physicsRefs[id].y
           yNew  == physicsRefs'[id].y
           diff  == InstanceOf(id).targetVolume - getTotalVolume(y)
           delta == IF diff > 500 * VolUnit THEN 500 * VolUnit
                    ELSE IF diff < -(500 * VolUnit) THEN -(500 * VolUnit)
                    ELSE diff
           fires == IsSyncStep /\ StepId = id /\ isEndDiastole'
       IN  \/ pc = "integrate" /\ StepId = id
           \/ /\ fires /\ (delta > VolUnit \/ delta < -VolUnit)
              /\ yNew = [y EXCEPT ![1] = y[1] + delta]
           \/ /\ ~(fires /\ (delta > VolUnit \/ delta < -VolUnit))
              /\ yNew = y]_vars

\* end-diastole has fired with the target exactly 1.0 mL above the total:
\* nothing was injected
C19_Witness ==
  /\ AfterSync
  /\ isEndDiastole
  /\ instances[k].targetVolume = getTotalVolume(physicsRefs[StepId].y) + VolUnit
  /\ physicsRefs[StepId].y[1] # INITIAL_STATE_VECTOR[1]
  /\ getTotalVolume(physicsRefs[StepId].y) = getTotalVolume(INITIAL_STATE_VECTOR)

\* C28: at every reachable state and ActiveParameters the 12 derivatives of
\* the RHS sum to 0 and the reservoir's is 0; an RK4 step leaves the total
\* volume and the reservoir component as they are; and a total that changes
\* does so in an end-diastole commit, by the clamped volume difference
C28_VolumeConserved ==
  /\ [](\A id \in DOMAIN physicsRefs :
          LET dy == rhs(physicsRefs[id].t, physicsRefs[id].y,
                        physicsRefs[id].activeParams).dy
          IN  SumSeq(dy, 12) = 0 /\ dy[12] = 0)
  /\ [][\A id \in DOMAIN physicsRefs \cap DOMAIN physicsRefs' :
          LET y    == physicsRefs[id].y
              yNew == physicsRefs'[id].y
          IN  /\ (pc = "integrate" /\ StepId = id) =>
                   /\ getTotalVolume(yNew) = getTotalVolume(y)
                   /\ yNew[12] = y[12]
              /\ getTotalVolume(yNew) # getTotalVolume(y) =>
                   /\ IsSyncStep /\ StepId = id /\ isEndDiastole'
                   /\ getTotalVolume(yNew) =
                        getTotalVolume(y) + VolumeDelta(y, InstanceOf(id).targetVolume)]_vars

\* RK4 steps have moved volume between the compartments after an injection
\* of 500 mL, and the total is the initial one plus 500 mL
C28_Witness ==
  \E id \in DOMAIN physicsRefs :
    /\ pc = "idle"
    /\ getTotalVolume(physicsRefs[id].y) =
         getTotalVolume(INITIAL_STATE_VECTOR) + maxDelta * VolUnit
    /\ physicsRefs[id].y[1] # INITIAL_STATE_VECTOR[1] + maxDelta * VolUnit
    /\ physicsRefs[id].y[5] # INITIAL_STATE_VECTOR[5]
    /\ physicsRefs[id].y[12] = INITIAL_STATE_VECTOR[12]

\* C20: the RK4 step of an iteration from (t, y) with the ActiveParameters
\* of that iteration: stepRK4 returns tNext = t + 2 and the aux of the RHS
\* evaluated at (t, y); the instance is then at tNext and yNext, and the
\* newest record of its buffer holds tNext, yNext and that aux
C20_RecordLagsPressures ==
  [][(pc = "integrate" /\ StepId \in DOMAIN physicsRefs) =>
       LET phys   == physicsRefs[StepId]
           after  == physicsRefs'[StepId]
           step   == stepRK4(phys.t, phys.y, 2, phys.activeParams)
           k1     == rhs(phys.t, phys.y, phys.activeParams)
           record == after.buffer[Len(after.buffer)]
       IN  /\ step.tNext = phys.t + 2
           /\ step.aux = k1.aux
           /\ after.t = step.tNext
           /\ after.y = step.yNext
           /\ after.activeParams = phys.activeParams
           /\ record = [t |-> phys.t + 2, y |-> after.y, aux |-> k1.aux]]_vars

\* the newest record holds the time and the state the instance is at, and
\* pressures that are not the ones the RHS gives at that time and state
C20_Witness ==
  \E id \in DOMAIN physicsRefs :
    LET phys   == physicsRefs[id]
        record == phys.buffer[Len(phys.buffer)]
    IN  /\ Len(phys.buffer) > 10
        /\ record.t = phys.t
        /\ record.y = phys.y
        /\ record.aux # rhs(phys.t, phys.y, phys.activeParams).aux
        /\ record.aux = rhs(phys.t - 2, phys.buffer[Len(phys.buffer) - 1].y,
                            phys.activeParams).aux

(***************************************************************************)
(* Properties of the frame scheduler (SpecSched)                           *)
(***************************************************************************)
\* the step is a frame
IsFrame == hist'.frames = hist.frames + 1
\* the instances a frame steps
Stepped == InstanceIds \cap DOMAIN physicsRefs
\* the wall-clock delta of the frame, in 0.1 ms (lines 124-125)
FrameDelta ==
  IF lastFrameTimeRef = 0 THEN 0 ELSE lastFrameTimeRef' - lastFrameTimeRef

\* C6: an unpaused frame whose floor(accumulator / 2.0), after the scaled
\* delta is added, exceeds 20 runs exactly 20 steps for every instance and
\* leaves the accumulator 0; no frame runs more than 20 steps for an instance
C6_OverloadClamp ==
  [][IsFrame =>
       LET raw == (residueTimeRef + FrameDelta * timeScale) \div 200
       IN  /\ (isPlaying /\ raw > 20) =>
                /\ residueTimeRef' = 0
                /\ stepsToRun' = 20
                /\ \A id \in Stepped :
                     /\ physicsRefs'[id].t = physicsRefs[id].t + 2 * 20
                     /\ Len(physicsRefs'[id].buffer) = Len(physicsRefs[id].buffer) + 20
           /\ \A id \in Stepped :
                /\ physicsRefs'[id].t <= physicsRefs[id].t + 2 * 20
                /\ Len(physicsRefs'[id].buffer) <= Len(physicsRefs[id].buffer) + 20]_vars

\* a frame of 10000 ms at speed 1.0 has run 20 steps and emptied the
\* accumulator
C6_Witness ==
  /\ hist.raw = 5000
  /\ hist.N = 20
  /\ stepsToRun = 20
  /\ residueTimeRef = 0
  /\ \A id \in DOMAIN physicsRefs : physicsRefs[id].t = INITIAL_TIME + 40

\* C7: from accumulator 0, over unpaused frames at speed 1.0 none of which
\* is clamped and whose deltas sum to D, the steps run for an instance are
\* floor(D / 2) within one: the sum of the frames' steps, and the advance of
\* t of an instance that was there from the start
C7_StepConservation ==
  hist.clean =>
    /\ Abs(hist.N - hist.D \div 20) <= 1
    /\ \A id \in DOMAIN physicsRefs :
         id = 1 => physicsRefs[id].t = INITIAL_TIME + 2 * hist.N

\* several frames with remainders have run
C7_Witness ==
  /\ hist.clean
  /\ hist.frames >= 4
  /\ hist.N >= 10
  /\ residueTimeRef > 0
  /\ hist.D % 20 # 0

\* C8: a frame that runs while paused sets the accumulator to 0 and leaves
\* every instance's physics state, the instances and the controls as they
\* are
C8_PausedFrame ==
  [][(IsFrame /\ ~isPlaying) =>
       /\ residueTimeRef' = 0
       /\ physicsRefs' = physicsRefs
       /\ UNCHANGED << uiVars, loopVars >>]_vars

\* a paused frame has emptied an accumulator that held a remainder, after
\* steps had run
C8_Witness ==
  /\ ~isPlaying
  /\ hist.raw = -1
  /\ hist.prevResidue > 0
  /\ residueTimeRef = 0
  /\ hist.N > 0

\* C27: in every state, so after every frame whether paused, normal or
\* clamped, the accumulator is at least 0 and less than one step of 2.0 ms
C27_AccumulatorRange ==
  /\ 0 <= residueTimeRef
  /\ residueTimeRef < PHYSICS_DT * 100

\* a frame at speed 2.0 has added to a remainder carried from the frame
\* before, run the whole steps and kept a remainder again
C27_Witness ==
  /\ isPlaying
  /\ timeScale = 20
  /\ hist.raw >= 1
  /\ hist.raw <= MAX_STEPS_PER_FRAME
  /\ hist.prevResidue > 0
  /\ residueTimeRef > 0
  /\ residueTimeRef < PHYSICS_DT * 100

\* C23: a paused frame moves the wall-clock reference to its own time stamp,
\* and the first unpaused frame after a paused one starts from an accumulator
\* of 0 and runs min(20, floor(its own delta * speed / 2.0)) steps for every
\* instance, keeping only the remainder of that product: nothing of the
\* time spent paused is turned into steps
C23_PauseNotCaughtUp ==
  /\ [][(IsFrame /\ ~isPlaying) =>
          /\ lastFrameTimeRef' > lastFrameTimeRef
          /\ residueTimeRef' = 0]_vars
  /\ [][(IsFrame /\ isPlaying /\ hist.frames > 0 /\ hist.raw = -1) =>
          LET own == FrameDelta * timeScale
              raw == own \div 200
          IN  /\ residueTimeRef = 0
              /\ stepsToRun' = Min(raw, MAX_STEPS_PER_FRAME)
              /\ residueTimeRef' = IF raw > MAX_STEPS_PER_FRAME THEN 0
                                   ELSE own - 200 * raw
              /\ \A id \in Stepped :
                   physicsRefs'[id].t = physicsRefs[id].t + PHYSICS_DT * stepsToRun']_vars

\* after a paused frame of 10 s, the next frame, unpaused and 3.9 ms long at
\* speed 1.0, has run one step and kept 1.9 ms
C23_Witness ==
  /\ isPlaying
  /\ timeScale = 10
  /\ hist.frames = 3
  /\ hist.raw = 1
  /\ hist.D = 39
  /\ lastFrameTimeRef = 1000 + 100000 + 39
  /\ stepsToRun = 1
  /\ residueTimeRef = 190
  /\ \A id \in Stepped : physicsRefs[id].t = INITIAL_TIME + PHYSICS_DT

(***************************************************************************)
(* Properties of the buffer (SpecLong)                                     *)
(***************************************************************************)
\* C9: in every state, so after every step, the newest entry of a non-empty
\* buffer is at most 21000 ms later than the oldest
C9_BufferRetention ==
  \A id \in DOMAIN physicsRefs :
    LET buffer == physicsRefs[id].buffer
    IN  Len(buffer) > 0 => buffer[Len(buffer)].t - buffer[1].t <= 21000

\* entries have been removed and the buffer spans exactly 21000 ms
C9_Witness ==
  \E id \in DOMAIN physicsRefs :
    LET buffer == physicsRefs[id].buffer
    IN  /\ Len(buffer) > 0
        /\ buffer[1].t > INITIAL_TIME + 2 * PHYSICS_DT
        /\ buffer[Len(buffer)].t - buffer[1].t = 21000
        /\ pc = "sync"

\* C22: in every state each buffer runs from oldest to newest in steps of
\* exactly 2 ms, so strictly increasing in t, and a non-empty buffer ends at
\* the instance's current t; over every step a buffer that changes is the old
\* one without some entries at its head and with one new entry at its tail
\* for each step run
C22_BufferOrdered ==
  /\ [](\A id \in DOMAIN physicsRefs :
          LET buffer == physicsRefs[id].buffer
          IN  /\ \A n \in 1..(Len(buffer) - 1) :
                     buffer[n + 1].t = buffer[n].t + PHYSICS_DT
              /\ Len(buffer) > 0 => buffer[Len(buffer)].t = physicsRefs[id].t)
  /\ [][\A id \in DOMAIN physicsRefs \cap DOMAIN physicsRefs' :
          LET old == physicsRefs[id].buffer
              new == physicsRefs'[id].buffer
              n   == (physicsRefs'[id].t - physicsRefs[id].t) \div PHYSICS_DT
          IN  \E d \in 0..n :
                /\ Len(new) = Len(old) + n - d
                /\ \A j \in 1..(Len(old) - d) : new[j] = old[j + d]]_vars

\* an RK4 step has just added an entry at the tail of a full buffer and
\* removed the oldest one
C22_Witness ==
  \E id \in DOMAIN physicsRefs :
    LET buffer == physicsRefs[id].buffer
    IN  /\ Len(buffer) = bufferRequiredMs \div PHYSICS_DT + 1
        /\ buffer[1].t = physicsRefs[id].t - bufferRequiredMs
        /\ buffer[1].t > INITIAL_TIME + 3 * PHYSICS_DT
        /\ pc = "idle"

\* the stenosis and regurgitation resistances of the four valves
ValveResistances ==
  { "Ravr", "Ravs", "Rmvr", "Rmvs", "Rpvr", "Rpvs", "Rtvr", "Rtvs" }

\* C16 as stated: an update that supplies a valve resistance with which the
\* discriminant of valve_flow can become negative, such as a negative Rr, is
\* rejected and leaves the live parameters as they are: no instance's live
\* parameters ever hold a negative valve resistance
C16_InvalidResistanceRejected ==
  \A n \in 1..Len(instances) :
    \A f \in ValveResistances : instances[n].params[f] >= 0

(***************************************************************************)
(* Properties of the macro sliders (SpecMacro)                             *)
(***************************************************************************)
\* the members of the four groups
GroupMembers(group) ==
  CASE group = "SystemicR" -> { "Ras", "Rcs", "Rvs", "Ras_prox", "Rda" }
    [] group = "SystemicC" -> { "Cas", "Cvs", "Cas_prox", "Cda" }
    [] group = "PulmR"     -> { "Rap", "Rvp", "Rap_prox", "Rcp" }
    [] group = "PulmC"     -> { "Cap", "Cvp", "Cap_prox" }
    [] OTHER               -> { }

RECURSIVE MemberSum(_, _)
\* the sum of the members of a group
MemberSum(params, members) ==
  IF members = {} THEN 0
  ELSE LET f == CHOOSE g \in members : TRUE
       IN  params[f] + MemberSum(params, members \ {f})

\* C17: a macro rescale leaves the live parameters of every instance as
\* they are when the group's current total is 0; otherwise every member m of
\* the group of the active instance becomes m * newTotal / currentTotal,
\* rounded down to the parameters' grid, so that the group's sum is newTotal
\* less the roundings and the members keep their proportions; no parameter
\* outside the group and no other instance changes
C17_MacroRescale ==
  [][hist'.macro.group # "none" /\ hist'.edits = hist.edits + 1 =>
       LET members      == GroupMembers(hist'.macro.group)
           newTotal     == hist'.macro.newTotal
           a            == CHOOSE n \in 1..Len(instances) :
                             instances[n].id = activeInstanceId
           before       == instances[a].params
           after        == instances'[a].params
           currentTotal == MemberSum(before, members)
       IN  /\ Len(instances') = Len(instances)
           /\ \A n \in 1..Len(instances) : n # a => instances'[n] = instances[n]
           /\ instances'[a].id = instances[a].id
           /\ instances'[a].targetVolume = instances[a].targetVolume
           /\ \A f \in DOMAIN before \ members : after[f] = before[f]
           /\ IF currentTotal = 0
              THEN after = before
              ELSE /\ \A f \in members :
                        /\ after[f] * currentTotal <= before[f] * newTotal
                        /\ before[f] * newTotal < (after[f] + 1) * currentTotal
                   /\ MemberSum(after, members) <= newTotal
                   /\ MemberSum(after, members) > newTotal - Cardinality(members)]_vars

\* the systemic resistances were scaled to a total of 0, and a later move of
\* the slider to 100 was skipped: they are all still 0
C17_Witness ==
  /\ hist.macro = [group |-> "SystemicR", newTotal |-> 1000]
  /\ hist.edits >= 2
  /\ getSystemicR(activeInstance.params) = 0
  /\ getPulmR(activeInstance.params) > 0

(***************************************************************************)
(* Properties of the instance manager (SpecInst)                           *)
(***************************************************************************)
\* the ids of the instances after the step
InstanceIdsNext == { instances'[n].id : n \in 1..Len(instances') }
\* the greatest element of a non-empty set of times
Latest(ts) == CHOOSE m \in ts : \A b \in ts : b <= m

\* C11: a PhysicsState created for an instance that was not tracked has the
\* greatest t of the instances tracked before (INITIAL_TIME when there is
\* none, as for the first instance), the canonical initial state vector, an
\* empty buffer and the instance's live parameters as ActiveParameters
C11_SeededPhysicsState ==
  /\ \A id \in DOMAIN physicsRefs :
       physicsRefs[id] = [ t |-> INITIAL_TIME, y |-> INITIAL_STATE_VECTOR,
                           buffer |-> << >>, activeParams |-> InstanceOf(id).params ]
  /\ [][\A id \in DOMAIN physicsRefs' \ DOMAIN physicsRefs :
          LET created == physicsRefs'[id]
              live    == instances'[CHOOSE n \in 1..Len(instances') :
                                      instances'[n].id = id]
          IN  /\ created.t = IF DOMAIN physicsRefs = {} THEN INITIAL_TIME
                             ELSE Latest({ physicsRefs[a].t : a \in DOMAIN physicsRefs })
              /\ created.y = INITIAL_STATE_VECTOR
              /\ created.buffer = << >>
              /\ created.activeParams = live.params]_vars

\* an instance has been added to a running one whose live HR had been edited:
\* it starts at the running instance's time, from the initial state vector,
\* with the edited HR active
C11_Witness ==
  /\ DOMAIN physicsRefs = { 1, 2 }
  /\ physicsRefs[1].t > INITIAL_TIME
  /\ physicsRefs[2].t = physicsRefs[1].t
  /\ physicsRefs[2].buffer = << >>
  /\ physicsRefs[2].y = INITIAL_STATE_VECTOR
  /\ physicsRefs[1].y # INITIAL_STATE_VECTOR
  /\ physicsRefs[2].activeParams.HR = 120
  /\ physicsRefs[1].activeParams.HR = 60

StepsPerBeat(HR) == (30000 + HR - 1) \div HR + 1

\* C26: in every state, the iterations an instance has run since its last
\* end-diastole event (since its creation, before the first) number less
\* than ceil(T / 2) + 1 for T = 60000 / active HR, so the event fires within
\* that many steps
C26_EndDiastoleWithinBeat ==
  \A id \in DOMAIN physicsRefs :
    hist.sinceED + 1 <= StepsPerBeat(physicsRefs[id].activeParams.HR)

\* a heart rate of 120 was committed at the first end-diastole event and
\* the next event has fired 250 steps later
C26_Witness ==
  /\ AfterSync
  /\ isEndDiastole
  /\ physicsRefs[StepId].activeParams.HR = 120
  /\ instances[k].params.HR = 120
  /\ physicsRefs[StepId].t = INITIAL_TIME + 46 + 500
  /\ hist.sinceED = 0
  /\ hist.edAfter = 2

\* targetVolume - total volume of the first instance
Gap == instances[1].targetVolume - getTotalVolume(physicsRefs[1].y)
\* a and b are not of opposite signs
SameSign(a, b) == (a >= 0 /\ b >= 0) \/ (a <= 0 /\ b <= 0)
\* ceil(|gap0| / 500) for the gap when the target was set
EventsNeeded == (Abs(hist.gap0) + maxDelta * VolUnit - 1) \div (maxDelta * VolUnit)

\* C29: with the target volume left where it was set at a gap of gap0, the
\* gap keeps the sign of gap0 and never exceeds it; once ceil(|gap0| / 500)
\* end-diastole events have fired it is at most 1.0 in magnitude; no step
\* makes it larger or flips its sign; and at a gap of at most 1.0 the total
\* volume no longer changes
C29_VolumeConverges ==
  /\ [](/\ SameSign(Gap, hist.gap0)
        /\ Abs(Gap) <= Abs(hist.gap0)
        /\ hist.edAfter >= EventsNeeded => Abs(Gap) <= VolUnit)
  /\ [][instances'[1].targetVolume = instances[1].targetVolume =>
          /\ Abs(Gap') <= Abs(Gap)
          /\ SameSign(Gap', Gap)
          /\ Abs(Gap) <= VolUnit => Gap' = Gap]_vars

\* the target was set 993 mL below the total; two end-diastole events have
\* removed 500 mL and 493 mL, and the third has just fired and left the
\* total at the target
C29_Witness ==
  /\ AfterSync
  /\ isEndDiastole
  /\ hist.edAfter = 3
  /\ EventsNeeded = 2
  /\ instances[1].targetVolume = 1000 * VolUnit
  /\ Gap = 0

\* the four AV delays, the eight valve resistances and the atrial Tmax
NeverCommitted ==
  { "LV_AV_delay", "LA_AV_delay", "RV_AV_delay", "RA_AV_delay",
    "LA_Tmax", "RA_Tmax" } \cup ValveResistances

\* C30: no step changes the AV delays, the valve resistances or the atrial
\* Tmax in the ActiveParameters of an instance that stays tracked, whatever
\* the live parameters hold; for the first instance they are therefore the
\* default values it was created with, in every state
C30_NeverCommitted ==
  /\ [](\A f \in NeverCommitted :
          physicsRefs[1].activeParams[f] = DEFAULT_PARAMS[f])
  /\ [][\A id \in DOMAIN physicsRefs \cap DOMAIN physicsRefs' :
          \A f \in NeverCommitted :
            physicsRefs'[id].activeParams[f] = physicsRefs[id].activeParams[f]]_vars

\* every live parameter was changed; end-diastole and end-systole have both
\* committed, and each of the 14 fields differs from the live value
C30_Witness ==
  /\ instances[1].params = AltParams
  /\ physicsRefs[1].activeParams.HR = AltParams.HR
  /\ physicsRefs[1].activeParams.LV_Tmax = AltParams.LV_Tmax
  /\ \A f \in NeverCommitted :
       /\ physicsRefs[1].activeParams[f] = DEFAULT_PARAMS[f]
       /\ physicsRefs[1].activeParams[f] # instances[1].params[f]

(***************************************************************************)
(* Properties of the beat (SpecBeat)                                       *)
(***************************************************************************)
\* C24 as stated: under any edits of the live parameters, HR and LV_Tmax
\* included, no iteration fires both phase events and, from one event to
\* the next, end-diastole and end-systole take turns
C24_StrictAlternation == hist.alternate

\* C21: the tracked ids are the ids of the current instances in every
\* state, so after every run of the instance manager; a step that adds or
\* removes an instance leaves the PhysicsState of every instance that stays
\* exactly as it was
C21_TrackedAreCurrent ==
  /\ [](DOMAIN physicsRefs = InstanceIds)
  /\ [][InstanceIdsNext # InstanceIds =>
          \A id \in InstanceIds \cap InstanceIdsNext :
            physicsRefs'[id] = physicsRefs[id]]_vars

\* the first instance was removed after it had run with a second one, which
\* is left with its time, state and buffer
C21_Witness ==
  /\ InstanceIds = { 2 }
  /\ DOMAIN physicsRefs = { 2 }
  /\ physicsRefs[2].t > INITIAL_TIME
  /\ Len(physicsRefs[2].buffer) > 0
  /\ hist.edits = 2

C14_CycleCount ==
  /\ Abs(hist.ED - (hist.N * PHYSICS_DT) \div 1000) <= 1
  /\ hist.N = 15000 => Abs(hist.ED - 30) <= 1

\* 15000 steps have run, to t = 30955, and fired 30 end-diastole events
C14_Witness ==
  /\ hist.N = 15000
  /\ hist.ED = 30
  /\ physicsRefs[1].t = INITIAL_TIME + 30000
  /\ physicsRefs[1].activeParams = DEFAULT_PARAMS
  /\ instances[1].params = DEFAULT_PARAMS

(***************************************************************************)
(* Properties of the physics functions (SpecPure)                          *)
(***************************************************************************)
\* C13 as stated: valve_flow(0, R, Rs, Rr) is 0 for R > 0, Rs >= 0, Rr > 0,
\* also for an Rr below the closed-valve threshold
C13_ZeroGradientFlow ==
  (call.fn = "valve_flow" /\ call.done /\ call.deltaP = 0) => call.result = 0

\* C15 as stated: e_func takes its time argument modulo the period
\* T = 60000 / HR into 0 <= phase < T, so that e(t) = e(t + k T) for every
\* whole k, for negative t and negative t + k T too
C15_PhaseNormalized ==
  (call.fn = "e_func" /\ call.done) => call.result = call.shifted

\* C25 as stated: with LV_Tmax 300 and any heart rate of the HR slider,
\* 30..200, an instance that keeps being stepped fires an end-systole event
C25_EndSystoleFires ==
  (call.fn = "isEndSystole" /\ call.done) => call.fires
====
